---------------------------- MODULE Spec2Model ----------------------------
(***************************************************************************)
(* The heartbeat delivery and offline-resilience subsystem of the WakaTime  *)
(* plugin for Acode: the Dispatcher and its throttle (src/src/main.js) and  *)
(* the offline handler with its persisted queue, its sync pass and its      *)
(* connectivity monitor (src/src/offline.js).                               *)
(*                                                                         *)
(* JavaScript runs the plugin on one thread: a step of the model is one     *)
(* task together with the microtasks it triggers (a handler runs to its     *)
(* next await on something external: a fetch, a timer, an event).           *)
(***************************************************************************)
EXTENDS Integers, Sequences, FiniteSets, TLC

(***************************************************************************)
(* Program constants.                                                       *)
(***************************************************************************)
\* main.js:40
HEARTBEAT_TIMEOUT == 120000
\* offline.js:22
maxRetries == 3

(***************************************************************************)
(* Bounds of the model.                                                     *)
(***************************************************************************)
\* The capacity of the persisted queue. offline.js:75-76 has 1000; the model
\* scales it down so that eviction happens within the bounds below.
MAX_QUEUE_SIZE == 2
\* Accepted (non-throttled) heartbeats in one behaviour: of activity events of
\* any kind, of file switches and of editor changes.
MaxEvents == 3
MaxSwitches == 2
MaxHeartbeats == 3
\* Immediate deliveries of the Dispatcher that may be in flight together: of
\* any event, and of the events of one folder.
MaxInflight == 2
MaxPending == 1
\* Post-reconnect timeouts (offline.js:134) that may be pending together.
MaxTimeouts == 1
\* The clock runs over MaxWindows throttle windows.
MaxWindows == 1
\* Kills of the process, each followed by a restart.
MaxRestarts == 1
\* startSyncTimer calls in a row that the history tells apart.
MaxStarts == 2
\* The capacity of the queue of the inline-sync variant. part_002:167-168 has
\* 500; the model scales it down.
OfflineLimit == 2
\* Sync passes of the inline-sync variant in one behaviour.
MaxPasses == 2

(***************************************************************************)
(* Inputs.                                                                  *)
(***************************************************************************)
Files == {"f1", "f2"}
Projects == {"p1", "p2"}
ApiKeys == {"k1", "k2"}
NoKey == "null"
NoFile == "null"
\* Date.now() at construction: later than the epoch by more than a window, so
\* that the initial lastHeartbeat.time = 0 is old.
StartTime == HEARTBEAT_TIMEOUT
\* Clock readings around the window's edge.
FineTimes == {t \in {StartTime + k * HEARTBEAT_TIMEOUT + d : k \in 0..MaxWindows, d \in {-1, 0, 1}} :
                t >= StartTime /\ t <= StartTime + MaxWindows * HEARTBEAT_TIMEOUT + 1}
\* The outcomes of one fetch: a 2xx response, another response, a transport error.
Outcomes == {"ok", "rejected", "neterr"}

VARIABLES
    now,            \* Date.now()
    apiKey,         \* appSettings.value[plugin.id].apiKey
    lastHeartbeat,  \* WakaTimePlugin.lastHeartbeat
    inflight,       \* the Dispatcher's deliveries awaiting fetch or response.json()
    nextHb,         \* the number of the next accepted heartbeat
    lastCall,       \* history: the last sendHeartbeat call and whether it was accepted
    lastAcc,        \* history: the last sendHeartbeat call that was accepted
    navOnline,      \* navigator.onLine
    netEvents,      \* the 'online'/'offline' event queued by the host
    isOnline,       \* WakaTimeOfflineHandler.isOnline
    syncInProgress, \* WakaTimeOfflineHandler.syncInProgress
    syncTimer,      \* WakaTimeOfflineHandler.syncTimer is not null
    intervals,      \* live setInterval timers
    timerStarts,    \* history: the startSyncTimer calls since the last stopSyncTimer
                    \* call (or construction), counted up to MaxStarts
    timeouts,       \* pending setTimeout callbacks of startSyncTimer
    storage,        \* localStorage['wakatime_offline_heartbeats'], parsed
    storageFails,   \* localStorage.setItem throws (quota exceeded)
    readFails,      \* localStorage.getItem throws, or the stored value does not parse
    nextSeq,        \* the serial of the next storeHeartbeat call
    passes,         \* the closures of the sync passes in flight
    rejected,       \* the closures of the passes whose promise rejected, as they were left
    completed,      \* history: the sync passes that completed, counted up to maxRetries
    forceResult,    \* what the promise of the last forceSyncNow call settled to
    killed,         \* history: per restart, the serials of the records that the pass
                    \* the kill ended had read and not delivered
    destroyed       \* history: destroy() of the offline handler was called

vars == <<now, apiKey, lastHeartbeat, inflight, nextHb, lastCall, lastAcc, navOnline, netEvents,
          isOnline, syncInProgress, syncTimer, intervals, timerStarts, timeouts, storage,
          storageFails, readFails, nextSeq, passes, rejected, completed, forceResult,
          killed, destroyed>>

dispatcherVars == <<now, apiKey, lastHeartbeat, inflight, nextHb, lastCall, lastAcc>>
monitorVars == <<navOnline, netEvents, isOnline, syncTimer, intervals, timerStarts, timeouts>>
queueVars == <<storage, nextSeq>>
passVars == <<syncInProgress, passes, rejected, completed>>
worldVars == <<storageFails, readFails, killed, destroyed>>

(***************************************************************************)
(* Helpers on sequences.                                                    *)
(***************************************************************************)
Range(s) == {s[i] : i \in DOMAIN s}
RemoveAt(s, i) == SubSeq(s, 1, i - 1) \o SubSeq(s, i + 1, Len(s))
Min(a, b) == IF a < b THEN a ELSE b

(***************************************************************************)
(* The persisted queue (offline.js).                                        *)
(***************************************************************************)
\* getStoredHeartbeats that does not catch what getItem or JSON.parse throws.
getStoredHeartbeats_Unguarded == storage

\* getStoredHeartbeats: the stored array; an absent item reads as [], and so
\* does a value that getItem or JSON.parse throws on.
getStoredHeartbeats == IF readFails THEN <<>> ELSE storage

\* Array.prototype.splice(0, n) followed by the rest: the array without its
\* first n elements.
spliceFront(arr, n) == SubSeq(arr, n + 1, Len(arr))

\* storeHeartbeat's array before it is written: the stored array with the new
\* record pushed, trimmed from the front to the capacity.
storedDataAfterPush(storedData, rec) ==
    LET pushed == Append(storedData, rec)
    IN IF Len(pushed) > MAX_QUEUE_SIZE
       THEN spliceFront(pushed, Len(pushed) - MAX_QUEUE_SIZE)
       ELSE pushed

\* storeHeartbeat(heartbeatData, apiKey): the record gets apiKey and
\* retryCount 0; a throwing setItem is caught and logged. Of the heartbeat's
\* data the record keeps hb, the heartbeat's number. seq, the serial of the
\* call, fails, the failed delivery attempts of sync passes, enqKey, the API
\* key the settings held during the call, and acked, whether the service has
\* answered a request with this heartbeat by a 2xx response (the Dispatcher's
\* request, when the call comes after response.json() failed), are history
\* the code does not keep.
storeHeartbeat(hb, key) ==
    LET rec == [hb |-> hb, seq |-> nextSeq, apiKey |-> key, retryCount |-> 0, fails |-> 0,
                enqKey |-> apiKey,
                acked |-> \E d \in inflight : d.hb = hb /\ d.stage = "json"]
    IN /\ storage' = IF storageFails
                     THEN storage
                     ELSE storedDataAfterPush(getStoredHeartbeats, rec)
       /\ nextSeq' = nextSeq + 1

(***************************************************************************)
(* The throttle and the Dispatcher (main.js).                               *)
(***************************************************************************)
\* isDuplicateHeartbeat with the window's edge inside the window.
isDuplicateHeartbeat_ClosedWindow(file, project, t) ==
    IF lastHeartbeat.file = NoFile
    THEN FALSE
    ELSE /\ lastHeartbeat.file = file
         /\ lastHeartbeat.project = project
         /\ t - lastHeartbeat.time <= HEARTBEAT_TIMEOUT

\* isDuplicateHeartbeat that compares the file alone.
isDuplicateHeartbeat_FileOnly(file, project, t) ==
    IF lastHeartbeat.file = NoFile
    THEN FALSE
    ELSE /\ lastHeartbeat.file = file
         /\ t - lastHeartbeat.time < HEARTBEAT_TIMEOUT

\* isDuplicateHeartbeat(file, project), with Date.now() as t.
isDuplicateHeartbeat(file, project, t) ==
    IF lastHeartbeat.file = NoFile
    THEN FALSE
    ELSE /\ lastHeartbeat.file = file
         /\ lastHeartbeat.project = project
         /\ t - lastHeartbeat.time < HEARTBEAT_TIMEOUT

isDeviceOnline == isOnline /\ navOnline

\* The history of sendHeartbeat calls: a call counts as accepted when it
\* started a delivery attempt or called storeHeartbeat.
recordCall(file, project) ==
    LET accepted == inflight' # inflight \/ nextSeq' # nextSeq
    IN /\ lastCall' = [file |-> file, project |-> project, time |-> now, accepted |-> accepted]
       /\ lastAcc' = IF accepted
                     THEN [file |-> file, project |-> project, time |-> now]
                     ELSE lastAcc

\* sendHeartbeat that remembers the time of a throttled call.
sendHeartbeat_RefreshOnThrottle(file, project) ==
    /\ IF apiKey = NoKey
       THEN UNCHANGED <<lastHeartbeat, nextHb, inflight, queueVars>>
       ELSE IF isDuplicateHeartbeat(file, project, now)
       THEN /\ lastHeartbeat' = [lastHeartbeat EXCEPT !.time = now]
            /\ UNCHANGED <<nextHb, inflight, queueVars>>
       ELSE /\ lastHeartbeat' = [time |-> now, file |-> file, project |-> project]
            /\ nextHb' = nextHb + 1
            /\ IF ~isDeviceOnline
               THEN /\ storeHeartbeat(nextHb, apiKey)
                    /\ UNCHANGED inflight
               ELSE /\ inflight' = inflight \cup {[hb |-> nextHb, auth |-> apiKey, stage |-> "fetch"]}
                    /\ UNCHANGED queueVars
    /\ recordCall(file, project)
    /\ UNCHANGED <<now, apiKey, monitorVars, worldVars, passVars, forceResult>>

\* sendHeartbeat that keeps the heartbeat it remembers until its window is over.
sendHeartbeat_KeepsFirst(file, project) ==
    /\ IF apiKey = NoKey \/ isDuplicateHeartbeat(file, project, now)
       THEN UNCHANGED <<lastHeartbeat, nextHb, inflight, queueVars>>
       ELSE /\ lastHeartbeat' = IF \/ lastHeartbeat.file = NoFile
                                   \/ now - lastHeartbeat.time >= HEARTBEAT_TIMEOUT
                                THEN [time |-> now, file |-> file, project |-> project]
                                ELSE lastHeartbeat
            /\ nextHb' = nextHb + 1
            /\ IF ~isDeviceOnline
               THEN /\ storeHeartbeat(nextHb, apiKey)
                    /\ UNCHANGED inflight
               ELSE /\ inflight' = inflight \cup {[hb |-> nextHb, auth |-> apiKey, stage |-> "fetch"]}
                    /\ UNCHANGED queueVars
    /\ recordCall(file, project)
    /\ UNCHANGED <<now, apiKey, monitorVars, worldVars, passVars, forceResult>>

\* sendHeartbeat up to its first await.
sendHeartbeat(file, project) ==
    /\ IF apiKey = NoKey \/ isDuplicateHeartbeat(file, project, now)
       THEN UNCHANGED <<lastHeartbeat, nextHb, inflight, queueVars>>
       ELSE /\ lastHeartbeat' = [time |-> now, file |-> file, project |-> project]
            /\ nextHb' = nextHb + 1
            /\ IF ~isDeviceOnline
               THEN /\ storeHeartbeat(nextHb, apiKey)
                    /\ UNCHANGED inflight
               ELSE /\ inflight' = inflight \cup {[hb |-> nextHb, auth |-> apiKey, stage |-> "fetch"]}
                    /\ UNCHANGED queueVars
    /\ recordCall(file, project)
    /\ UNCHANGED <<now, apiKey, monitorVars, worldVars, passVars, forceResult>>

\* An activity event (handleFileSwitch, handleEditorChange) for a valid file
\* of any project.
SendHeartbeat ==
    /\ nextHb <= MaxEvents
    /\ Cardinality(inflight) < MaxInflight
    /\ \E file \in Files, project \in Projects : sendHeartbeat(file, project)

\* handleFileSwitch, for the files of one added folder.
HandleFileSwitch ==
    /\ nextHb <= MaxSwitches
    /\ Cardinality(inflight) < MaxPending
    /\ \E file \in Files : sendHeartbeat(file, "p1")

\* handleEditorChange, for the files of one added folder.
HandleEditorChange ==
    /\ nextHb <= MaxHeartbeats
    /\ Cardinality(inflight) < MaxPending
    /\ \E file \in Files : sendHeartbeat(file, "p1")

\* sendHeartbeat that forgets the heartbeat it remembered when the delivery fails.
dispatchFetchDone_ForgetsOnFailure(d, outcome) ==
    /\ d.stage = "fetch"
    /\ IF outcome = "ok"
       THEN /\ inflight' = (inflight \ {d}) \cup {[d EXCEPT !.stage = "json"]}
            /\ UNCHANGED <<queueVars, lastHeartbeat>>
       ELSE /\ inflight' = inflight \ {d}
            /\ storeHeartbeat(d.hb, apiKey)
            /\ lastHeartbeat' = [time |-> 0, file |-> NoFile, project |-> NoFile]
    /\ UNCHANGED <<now, apiKey, nextHb, lastCall, lastAcc, monitorVars,
                   worldVars, passVars, forceResult>>

\* sendHeartbeat resumed when its fetch settles.
dispatchFetchDone(d, outcome) ==
    /\ d.stage = "fetch"
    /\ IF outcome = "ok"
       THEN /\ inflight' = (inflight \ {d}) \cup {[d EXCEPT !.stage = "json"]}
            /\ UNCHANGED queueVars
       ELSE /\ inflight' = inflight \ {d}
            /\ storeHeartbeat(d.hb, apiKey)
    /\ UNCHANGED <<now, apiKey, lastHeartbeat, nextHb, lastCall, lastAcc, monitorVars,
                   worldVars, passVars, forceResult>>

DispatchFetchDone ==
    \E d \in inflight, outcome \in Outcomes : dispatchFetchDone(d, outcome)

\* sendHeartbeat resumed when response.json() settles; a body that is not JSON
\* rejects and lands in the catch block.
dispatchJsonDone(d, parsed) ==
    /\ d.stage = "json"
    /\ inflight' = inflight \ {d}
    /\ IF parsed
       THEN UNCHANGED queueVars
       ELSE storeHeartbeat(d.hb, apiKey)
    /\ UNCHANGED <<now, apiKey, lastHeartbeat, nextHb, lastCall, lastAcc, monitorVars,
                   worldVars, passVars, forceResult>>

DispatchJsonDone ==
    \E d \in inflight, parsed \in BOOLEAN : dispatchJsonDone(d, parsed)

\* The settings callback for 'api_key'.
SetApiKey ==
    \E k \in ApiKeys :
        /\ apiKey' = k
        /\ UNCHANGED <<now, lastHeartbeat, inflight, nextHb, lastCall, lastAcc, monitorVars,
                       queueVars, worldVars, passVars, forceResult>>

\* Time passes: Date.now() reads later.
TickFine ==
    \E t \in FineTimes :
        /\ t > now
        /\ now' = t
        /\ UNCHANGED <<apiKey, lastHeartbeat, inflight, nextHb, lastCall, lastAcc, monitorVars,
                       queueVars, worldVars, passVars, forceResult>>

(***************************************************************************)
(* The connectivity monitor and its timers (offline.js).                    *)
(***************************************************************************)
\* startSyncTimer without its clearInterval: the old interval stays live.
startSyncTimer_KeepsOld ==
    /\ syncTimer' = TRUE
    /\ intervals' = intervals + 1
    /\ timerStarts' = Min(timerStarts + 1, MaxStarts)
    /\ timeouts' = timeouts + 1

\* startSyncTimer: the old interval is cleared, a new one is set, and one
\* timeout is scheduled for the near-immediate pass.
startSyncTimer ==
    /\ syncTimer' = TRUE
    /\ intervals' = (IF syncTimer THEN intervals - 1 ELSE intervals) + 1
    /\ timerStarts' = Min(timerStarts + 1, MaxStarts)
    /\ timeouts' = timeouts + 1

stopSyncTimer ==
    /\ syncTimer' = FALSE
    /\ intervals' = IF syncTimer THEN intervals - 1 ELSE intervals
    /\ timerStarts' = 0
    /\ UNCHANGED timeouts

\* The host changes navigator.onLine and queues the event for the listeners;
\* it dispatches the event before it changes navigator.onLine again.
NetFlip ==
    /\ netEvents = <<>>
    /\ navOnline' = ~navOnline
    /\ netEvents' = Append(netEvents, IF navOnline THEN "offline" ELSE "online")
    /\ UNCHANGED <<dispatcherVars, isOnline, syncTimer, intervals, timerStarts, timeouts, queueVars,
                   worldVars, passVars, forceResult>>

\* The 'online' listener of init.
OnOnline ==
    /\ netEvents # <<>>
    /\ Head(netEvents) = "online"
    /\ timeouts < MaxTimeouts
    /\ netEvents' = Tail(netEvents)
    /\ isOnline' = TRUE
    /\ startSyncTimer
    /\ UNCHANGED <<dispatcherVars, navOnline, queueVars, worldVars, passVars, forceResult>>

\* The 'offline' listener of init.
OnOffline ==
    /\ netEvents # <<>>
    /\ Head(netEvents) = "offline"
    /\ netEvents' = Tail(netEvents)
    /\ isOnline' = FALSE
    /\ stopSyncTimer
    /\ UNCHANGED <<dispatcherVars, navOnline, queueVars, worldVars, passVars, forceResult>>

\* The host reports a connection again while navigator.onLine is true (the
\* connection changed its type): an 'online' event with no 'offline' before.
NetAgain ==
    /\ netEvents = <<>>
    /\ navOnline
    /\ netEvents' = Append(netEvents, "online")
    /\ UNCHANGED <<dispatcherVars, navOnline, isOnline, syncTimer, intervals, timerStarts,
                   timeouts, queueVars, worldVars, passVars, forceResult>>

\* destroy of the offline handler: stopSyncTimer, and two removeEventListener
\* calls whose listener argument (this.handleOnline, this.handleOffline) is
\* undefined, so that the listeners of init stay registered; the timeout of
\* startSyncTimer is not cleared.
destroy ==
    /\ stopSyncTimer
    /\ destroyed' = TRUE
    /\ UNCHANGED <<navOnline, netEvents, isOnline>>

\* The host unmounts the plugin: WakaTimePlugin.destroy calls destroy of
\* the offline handler.
Destroy ==
    /\ ~destroyed
    /\ destroy
    /\ UNCHANGED <<dispatcherVars, queueVars, passVars, forceResult, storageFails, readFails,
                   killed>>

(***************************************************************************)
(* The sync pass (offline.js).                                              *)
(*                                                                         *)
(* A pass is the closure of one syncStoredHeartbeats call: snap is its      *)
(* storedHeartbeats array, whose objects the pass mutates; failedSyncs and  *)
(* successfulSyncs hold references to those objects, here their indices.    *)
(* fetching holds the indices whose fetch is in flight, and armed the       *)
(* indices i whose chain 'syncSingleHeartbeat(snap[i]).then(..).catch(..)'  *)
(* has a .catch callback that has not run and still awaits the promise of   *)
(* its .then. submitted, the indices in the order their fetch was started,  *)
(* auth, the Authorization headers of those fetches, resent, the indices    *)
(* submitted when their record had been answered by a 2xx response before,  *)
(* failedIdx, the indices whose delivery failed, and read, the array as     *)
(* getStoredHeartbeats returned it, are history the code does not keep.     *)
(***************************************************************************)
\* The Authorization header with the API key of the program's settings
\* instead of the record's.
authorization_ActiveKey(heartbeat) == <<"Basic", apiKey>>

\* The Authorization header of syncSingleHeartbeat's request:
\* 'Basic ' followed by btoa(heartbeat.apiKey), which is one-to-one.
authorization(heartbeat) == <<"Basic", heartbeat.apiKey>>

\* syncSingleHeartbeat's promise: true for a 2xx response, false for any
\* other response and for a transport error; it never rejects.
syncSingleHeartbeat(outcome) == outcome = "ok"

\* JSON.stringify(failedSyncs), parsed: the referenced objects as they are now.
stringifyFailed(pass) == [k \in 1..Len(pass.failedSyncs) |-> pass.snap[pass.failedSyncs[k]]]

\* processHeartbeats(index) on a pass, given the stored value and whether
\* setItem throws: past the end it writes the result and resets
\* syncInProgress, or throws from setItem; otherwise it starts the fetch of
\* snap[index] and chains the .then and the .catch callback to it.
\* processHeartbeats that persists failedSyncs whenever it moves on to the
\* next record.
processHeartbeats_WritesEarly(pass, index, stored, full) ==
    IF index > Len(pass.snap)
    THEN IF pass.failedSyncs # <<>>
         THEN IF full
              THEN [pass |-> pass, storage |-> stored, done |-> FALSE, threw |-> TRUE]
              ELSE [pass |-> pass, storage |-> stringifyFailed(pass), done |-> TRUE, threw |-> FALSE]
         ELSE [pass |-> pass, storage |-> <<>>, done |-> TRUE, threw |-> FALSE]
    ELSE [pass |-> [pass EXCEPT !.fetching = @ \cup {index},
                                !.armed = @ \cup {index},
                                !.submitted = Append(@, index),
                                !.auth = Append(@, authorization(pass.snap[index])),
                                !.resent = IF pass.snap[index].acked
                                           THEN @ \cup {index}
                                           ELSE @],
          storage |-> IF full THEN stored ELSE stringifyFailed(pass),
          done |-> FALSE, threw |-> FALSE]

processHeartbeats(pass, index, stored, full) ==
    IF index > Len(pass.snap)
    THEN IF pass.failedSyncs # <<>>
         THEN IF full
              THEN [pass |-> pass, storage |-> stored, done |-> FALSE, threw |-> TRUE]
              ELSE [pass |-> pass, storage |-> stringifyFailed(pass), done |-> TRUE, threw |-> FALSE]
         ELSE [pass |-> pass, storage |-> <<>>, done |-> TRUE, threw |-> FALSE]
    ELSE [pass |-> [pass EXCEPT !.fetching = @ \cup {index},
                                !.armed = @ \cup {index},
                                !.submitted = Append(@, index),
                                !.auth = Append(@, authorization(pass.snap[index])),
                                !.resent = IF pass.snap[index].acked
                                           THEN @ \cup {index}
                                           ELSE @],
          storage |-> stored, done |-> FALSE, threw |-> FALSE]

\* The count and the push with a budget that includes maxRetries itself.
countFailure_Inclusive(pass, i) ==
    LET rc == pass.snap[i].retryCount + 1
        bumped == [pass EXCEPT !.snap[i].retryCount = rc]
    IN IF rc <= maxRetries
       THEN [bumped EXCEPT !.failedSyncs = Append(@, i)]
       ELSE bumped

\* 'heartbeat.retryCount = (heartbeat.retryCount || 0) + 1' and the push to
\* failedSyncs while the count is below maxRetries (lines 207-215, 224-227).
countFailure(pass, i) ==
    LET rc == pass.snap[i].retryCount + 1
        bumped == [pass EXCEPT !.snap[i].retryCount = rc]
    IN IF rc < maxRetries
       THEN [bumped EXCEPT !.failedSyncs = Append(@, i)]
       ELSE bumped

\* The .then callback of line 203, before it calls processHeartbeats(index + 1).
thenHandler(pass, i, success) ==
    IF success
    THEN [pass EXCEPT !.successfulSyncs = Append(@, i)]
    ELSE countFailure(pass, i)

\* The .catch callback of line 219, before it calls processHeartbeats(index + 1).
catchHandler(pass, i) == countFailure(pass, i)

\* The innermost chain whose .catch callback has not run.
innermost(armed) == CHOOSE i \in armed : \A j \in armed : j <= i

\* A throw of processHeartbeats rejects the promise of the .then callback
\* that called it. The .catch callback of the innermost armed chain runs and
\* calls processHeartbeats(index + 1) itself: that starts a fetch, or writes
\* the result, or throws again and rejects the promise this chain returned to
\* the .then callback of the chain around it. With no chain left, the promise
\* of syncStoredHeartbeats is rejected.
RECURSIVE rejectionPropagates(_, _, _)
rejectionPropagates(pass, stored, full) ==
    IF pass.armed = {}
    THEN [pass |-> pass, storage |-> stored, done |-> FALSE, threw |-> TRUE]
    ELSE LET i == innermost(pass.armed)
             caught == catchHandler([pass EXCEPT !.armed = @ \ {i}], i)
             again == processHeartbeats(caught, i + 1, stored, full)
         IN IF again.threw
            THEN rejectionPropagates(again.pass, stored, full)
            ELSE again

\* The pass a call of syncStoredHeartbeats creates.
newPass(stored) ==
    [snap |-> stored, failedSyncs |-> <<>>, successfulSyncs |-> <<>>,
     fetching |-> {}, armed |-> {}, submitted |-> <<>>, auth |-> <<>>, resent |-> {},
     failedIdx |-> {}, read |-> stored]

\* syncStoredHeartbeats without the test of syncInProgress.
syncStoredHeartbeats_NoBusyCheck ==
    IF ~isOnline
    THEN UNCHANGED <<passVars, storage>>
    ELSE LET storedHeartbeats == getStoredHeartbeats
         IN IF Len(storedHeartbeats) = 0
            THEN UNCHANGED <<passVars, storage>>
            ELSE /\ syncInProgress' = TRUE
                 /\ passes' = Append(passes,
                        processHeartbeats(newPass(storedHeartbeats), 1, storage, storageFails).pass)
                 /\ UNCHANGED <<rejected, completed, storage>>

\* syncStoredHeartbeats without the test of isOnline.
syncStoredHeartbeats_NoOnlineCheck ==
    IF syncInProgress
    THEN UNCHANGED <<passVars, storage>>
    ELSE LET storedHeartbeats == getStoredHeartbeats
         IN IF Len(storedHeartbeats) = 0
            THEN UNCHANGED <<passVars, storage>>
            ELSE /\ syncInProgress' = TRUE
                 /\ passes' = Append(passes,
                        processHeartbeats(newPass(storedHeartbeats), 1, storage, storageFails).pass)
                 /\ UNCHANGED <<rejected, completed, storage>>

\* syncStoredHeartbeats up to the first fetch.
syncStoredHeartbeats ==
    IF ~isOnline \/ syncInProgress
    THEN UNCHANGED <<passVars, storage>>
    ELSE LET storedHeartbeats == getStoredHeartbeats
         IN IF Len(storedHeartbeats) = 0
            THEN UNCHANGED <<passVars, storage>>
            ELSE /\ syncInProgress' = TRUE
                 /\ passes' = Append(passes,
                        processHeartbeats(newPass(storedHeartbeats), 1, storage, storageFails).pass)
                 /\ UNCHANGED <<rejected, completed, storage>>

\* The setInterval callback.
TimerFire ==
    /\ intervals > 0
    /\ syncStoredHeartbeats
    /\ UNCHANGED <<dispatcherVars, monitorVars, nextSeq, worldVars, forceResult>>

\* The setTimeout callback.
TimeoutFire ==
    /\ timeouts > 0
    /\ timeouts' = timeouts - 1
    /\ syncStoredHeartbeats
    /\ UNCHANGED <<dispatcherVars, navOnline, netEvents, isOnline, syncTimer, intervals,
                   timerStarts,
                   nextSeq, worldVars, forceResult>>

\* forceSyncNow, from the settings callback or syncNow.
\* The promise resolves to false when offline; otherwise to true once the
\* promise of syncStoredHeartbeats is fulfilled: at once when the call
\* returned Promise.resolve(), else when the pass it started ends.
forceSyncNow ==
    IF ~isOnline
    THEN /\ UNCHANGED <<passVars, storage>>
         /\ forceResult' = "false"
    ELSE /\ syncStoredHeartbeats
         /\ forceResult' = IF passes' # passes THEN "pending" ELSE "true"

ForceSyncNow ==
    /\ forceSyncNow
    /\ UNCHANGED <<dispatcherVars, monitorVars, nextSeq, worldVars>>

\* The pass when the fetch of snap[i] has settled, with its history.
settleFetch(pass, i, success) ==
    [pass EXCEPT !.fetching = @ \ {i},
                 !.snap[i].fails = IF success THEN @ ELSE @ + 1,
                 !.snap[i].acked = IF success THEN TRUE ELSE @,
                 !.failedIdx = IF success THEN @ ELSE @ \cup {i}]

\* The fetch of snap[i] settles: syncSingleHeartbeat resolves, the .then
\* callback runs and calls processHeartbeats(i + 1); what that throws goes to
\* the .catch callbacks.
syncFetchDone(p, i, outcome) ==
    LET success == syncSingleHeartbeat(outcome)
        handled == thenHandler(settleFetch(passes[p], i, success), i, success)
        first == processHeartbeats(handled, i + 1, storage, storageFails)
        result == IF first.threw
                  THEN rejectionPropagates(first.pass, storage, storageFails)
                  ELSE first
    IN /\ storage' = result.storage
       /\ syncInProgress' = IF result.done THEN FALSE ELSE syncInProgress
       /\ passes' = IF result.done \/ result.threw
                    THEN RemoveAt(passes, p)
                    ELSE [passes EXCEPT ![p] = result.pass]
       /\ rejected' = IF result.threw THEN rejected \cup {result.pass} ELSE rejected
       /\ completed' = IF result.done THEN Min(completed + 1, maxRetries) ELSE completed
       /\ forceResult' = IF forceResult # "pending" THEN forceResult
                         ELSE IF result.done THEN "true"
                         ELSE IF result.threw THEN "rejected"
                         ELSE forceResult
       /\ UNCHANGED <<dispatcherVars, monitorVars, nextSeq, worldVars>>

SyncFetchDone ==
    \E p \in DOMAIN passes : \E i \in passes[p].fetching, outcome \in Outcomes :
        syncFetchDone(p, i, outcome)

\* The serials of the records a pass read and has not delivered.
undelivered(pass) ==
    {pass.read[j].seq : j \in DOMAIN pass.read \ Range(pass.successfulSyncs)}

\* The host kills the process and starts it again: what localStorage and the
\* settings hold survives, the constructors and init run as at the start,
\* and the fetches and timers of the old process are gone.
Crash ==
    /\ Len(killed) < MaxRestarts
    /\ killed' = Append(killed, UNION {undelivered(pass) : pass \in Range(passes)})
    /\ lastHeartbeat' = [time |-> 0, file |-> NoFile, project |-> NoFile]
    /\ inflight' = {}
    /\ lastCall' = [file |-> NoFile, project |-> NoFile, time |-> 0, accepted |-> FALSE]
    /\ lastAcc' = [file |-> NoFile, project |-> NoFile, time |-> 0]
    /\ netEvents' = <<>>
    /\ isOnline' = navOnline
    /\ syncInProgress' = FALSE
    /\ syncTimer' = navOnline
    /\ intervals' = IF navOnline THEN 1 ELSE 0
    /\ timerStarts' = IF navOnline THEN 1 ELSE 0
    /\ destroyed' = FALSE
    /\ timeouts' = IF navOnline THEN 1 ELSE 0
    /\ passes' = <<>>
    /\ rejected' = {}
    /\ completed' = 0
    /\ forceResult' = "none"
    /\ UNCHANGED <<now, apiKey, nextHb, navOnline, queueVars, storageFails, readFails>>

\* getStats: the fields that do not depend on the clock.
getStats ==
    [totalStored |-> Len(getStoredHeartbeats), isOnline |-> isOnline,
     syncInProgress |-> syncInProgress]

\* The stored value becomes unreadable (getItem throws, or the value is
\* damaged and JSON.parse throws on it) or readable again.
ReadFault ==
    /\ readFails' = ~readFails
    /\ UNCHANGED <<dispatcherVars, monitorVars, queueVars, passVars, forceResult, storageFails,
                   killed, destroyed>>

\* Other users of the origin's localStorage fill it up or free it.
StorageFault ==
    /\ storageFails' = ~storageFails
    /\ UNCHANGED <<dispatcherVars, monitorVars, queueVars, passVars, forceResult, readFails, killed,
                   destroyed>>

(***************************************************************************)
(* The specifications.                                                      *)
(***************************************************************************)
\* The constructors of WakaTimePlugin and WakaTimeOfflineHandler, with an
\* empty stored queue; init starts the timer when the host is online.
Init ==
    /\ now = StartTime
    /\ apiKey \in {NoKey} \cup ApiKeys
    /\ lastHeartbeat = [time |-> 0, file |-> NoFile, project |-> NoFile]
    /\ inflight = {}
    /\ nextHb = 1
    /\ lastCall = [file |-> NoFile, project |-> NoFile, time |-> 0, accepted |-> FALSE]
    /\ lastAcc = [file |-> NoFile, project |-> NoFile, time |-> 0]
    /\ navOnline \in BOOLEAN
    /\ netEvents = <<>>
    /\ isOnline = navOnline
    /\ syncInProgress = FALSE
    /\ syncTimer = isOnline
    /\ intervals = IF isOnline THEN 1 ELSE 0
    /\ timerStarts = IF isOnline THEN 1 ELSE 0
    /\ timeouts = IF isOnline THEN 1 ELSE 0
    /\ storage = <<>>
    /\ storageFails = FALSE
    /\ readFails = FALSE
    /\ forceResult = "none"
    /\ killed = <<>>
    /\ destroyed = FALSE
    /\ nextSeq = 1
    /\ passes = <<>>
    /\ rejected = {}
    /\ completed = 0

\* The plugin with its API key set.
InitConfigured == Init /\ apiKey = "k1"

Next ==
    \/ HandleFileSwitch
    \/ DispatchFetchDone
    \/ DispatchJsonDone
    \/ NetFlip
    \/ OnOnline
    \/ OnOffline
    \/ TimerFire
    \/ TimeoutFire
    \/ ForceSyncNow
    \/ SyncFetchDone
    \/ StorageFault

\* The whole plugin: the Dispatcher, the queue, the monitor and the sync pass.
Spec == InitConfigured /\ [][Next]_vars

NextRead ==
    \/ Next
    \/ ReadFault

\* The whole plugin with reads of the storage that fail.
SpecRead == InitConfigured /\ [][NextRead]_vars

NextCrash ==
    \/ HandleEditorChange
    \/ DispatchFetchDone
    \/ DispatchJsonDone
    \/ NetFlip
    \/ OnOnline
    \/ OnOffline
    \/ TimerFire
    \/ TimeoutFire
    \/ SyncFetchDone
    \/ Crash

\* The plugin, with a storage that takes every write, in a process that the
\* host may kill and restart.
SpecCrash == InitConfigured /\ [][NextCrash]_vars

NextThrottle ==
    \/ TickFine
    \/ SendHeartbeat
    \/ DispatchFetchDone
    \/ DispatchJsonDone
    \/ NetFlip
    \/ OnOnline
    \/ OnOffline

InitThrottle == Init /\ apiKey \in {NoKey, "k1"}

\* The Dispatcher, the queue and the monitor before a timer callback fires,
\* with a clock that reads the window's edges.
SpecThrottle == InitThrottle /\ [][NextThrottle]_vars

NextQueue ==
    \/ HandleEditorChange
    \/ DispatchFetchDone
    \/ DispatchJsonDone
    \/ NetFlip
    \/ OnOnline
    \/ OnOffline
    \/ StorageFault

\* The Dispatcher, the queue and the monitor before a timer callback fires:
\* no sync pass runs.
SpecQueue == InitConfigured /\ [][NextQueue]_vars

\* The host reconnects: NetFlip from offline to online.
GoOnline ==
    /\ ~navOnline
    /\ NetFlip

NextReconnect ==
    \/ SendHeartbeat
    \/ DispatchFetchDone
    \/ DispatchJsonDone
    \/ GoOnline
    \/ OnOnline
    \/ TimeoutFire
    \/ SyncFetchDone
    \/ StorageFault

InitOffline == InitConfigured /\ ~navOnline

\* The plugin started offline, up to the host's first reconnect and through
\* the sync pass that the timeout of startSyncTimer starts after it.
SpecReconnect == InitOffline /\ [][NextReconnect]_vars

\* The arrays the stored value may hold when the handler is constructed: up
\* to MAX_QUEUE_SIZE records in enqueue order, written by storeHeartbeat and
\* by the passes of an earlier run.
StoredQueues ==
    UNION {[1..n -> 0..(maxRetries - 1)] : n \in 1..MAX_QUEUE_SIZE}

storedQueue(counts) ==
    [k \in DOMAIN counts |->
        [hb |-> k, seq |-> k, apiKey |-> "k1", retryCount |-> counts[k], fails |-> counts[k],
         enqKey |-> "k1", acked |-> FALSE]]

\* The handler constructed online over a stored queue of an earlier run.
InitDrain ==
    /\ now = StartTime
    /\ apiKey = "k1"
    /\ lastHeartbeat = [time |-> 0, file |-> NoFile, project |-> NoFile]
    /\ inflight = {}
    /\ lastCall = [file |-> NoFile, project |-> NoFile, time |-> 0, accepted |-> FALSE]
    /\ lastAcc = [file |-> NoFile, project |-> NoFile, time |-> 0]
    /\ navOnline = TRUE
    /\ netEvents = <<>>
    /\ isOnline = navOnline
    /\ syncInProgress = FALSE
    /\ syncTimer = isOnline
    /\ intervals = 1
    /\ timerStarts = 1
    /\ timeouts = 1
    /\ \E counts \in StoredQueues :
          /\ storage = storedQueue(counts)
          /\ nextSeq = Len(counts) + 1
          /\ nextHb = Len(counts) + 1
    /\ storageFails = FALSE
    /\ readFails = FALSE
    /\ forceResult = "none"
    /\ killed = <<>>
    /\ destroyed = FALSE
    /\ passes = <<>>
    /\ rejected = {}
    /\ completed = 0

NextDrain ==
    \/ TimerFire
    \/ TimeoutFire
    \/ ForceSyncNow
    \/ SyncFetchDone
    \/ StorageFault

\* The handler online with a stored queue and no activity in the editor.
SpecDrain == InitDrain /\ [][NextDrain]_vars

NextCredential ==
    \/ HandleFileSwitch
    \/ DispatchFetchDone
    \/ DispatchJsonDone
    \/ SetApiKey
    \/ NetFlip
    \/ OnOnline
    \/ OnOffline
    \/ TimerFire
    \/ TimeoutFire
    \/ SyncFetchDone
    \/ StorageFault

\* The whole plugin with a user who changes the API key in the settings.
SpecCredential == InitConfigured /\ [][NextCredential]_vars

NextSlot ==
    \/ TickFine
    \/ HandleEditorChange
    \/ DispatchFetchDone
    \/ DispatchJsonDone
    \/ NetFlip
    \/ OnOnline
    \/ OnOffline

\* The Dispatcher with a user who edits two files of one project, and a
\* clock that reads the window's edges.
SpecSlot == InitThrottle /\ [][NextSlot]_vars

\* The whole plugin with deliveries of the sync pass that all settle: fetch
\* resolves or rejects in the end, and the callbacks chained to it run.
SpecSettle == InitConfigured /\ [][Next]_vars /\ WF_vars(SyncFetchDone)

(***************************************************************************)
(* What the claims speak of.                                                *)
(***************************************************************************)
\* The serials of the records of a sequence.
Seqs(q) == {q[k].seq : k \in DOMAIN q}

\* A sync pass ends in this step: it wrote its result, or its promise rejected.
PassEnds == Len(passes') < Len(passes)

\* A sync pass completes in this step: it wrote its result and reset syncInProgress.
PassCompletes == PassEnds /\ rejected' = rejected

(***************************************************************************)
(* C1: a record that is in the persisted queue when a sync pass completes,  *)
(* and that is not of the pass's snapshot (storeHeartbeat appended it while *)
(* the pass was in flight), is still in the persisted queue afterwards.     *)
(***************************************************************************)
C1_NoRecordLostToPass ==
    [][\A p \in DOMAIN passes :
          (PassCompletes /\ passes' = RemoveAt(passes, p))
              => \A s \in Seqs(storage) \ Seqs(passes[p].snap) : s \in Seqs(storage')]_vars

(***************************************************************************)
(* C2: at most one sync pass is in flight, and a call of                    *)
(* syncStoredHeartbeats (by the interval, by the timeout or by              *)
(* forceSyncNow) that arrives while syncInProgress is set starts no         *)
(* delivery and writes nothing to the storage.                              *)
(***************************************************************************)
C2_SinglePass ==
    /\ [](Len(passes) <= 1 /\ (passes # <<>> => syncInProgress))
    /\ [][(syncInProgress /\ (TimerFire \/ TimeoutFire \/ ForceSyncNow))
             => UNCHANGED <<storage, passes, inflight>>]_vars

\* A pass is in flight while the monitor is online, the queue is not empty,
\* the interval is live and a timeout is pending: a second call is due.
C2_Witness ==
    /\ syncInProgress
    /\ Len(passes) = 1
    /\ isOnline
    /\ storage # <<>>
    /\ intervals > 0
    /\ timeouts > 0

(***************************************************************************)
(* C3: a sendHeartbeat call for the (file, project) of the last accepted    *)
(* heartbeat, D ms after it, is accepted exactly when D >= 120000; an       *)
(* accepted call makes one delivery attempt or one enqueue, a throttled     *)
(* call makes none. Deliveries in flight do not matter.                     *)
(***************************************************************************)
C3_ThrottleWindow ==
    [][\A f \in Files, p \in Projects :
          (sendHeartbeat(f, p) /\ lastAcc.file = f /\ lastAcc.project = p)
              => /\ lastCall'.accepted <=> (now - lastAcc.time >= HEARTBEAT_TIMEOUT)
                 /\ IF lastCall'.accepted
                    THEN \/ /\ Cardinality(inflight') = Cardinality(inflight) + 1
                            /\ inflight \subseteq inflight'
                            /\ nextSeq' = nextSeq
                         \/ /\ inflight' = inflight
                            /\ nextSeq' = nextSeq + 1
                    ELSE inflight' = inflight /\ UNCHANGED queueVars]_vars

\* The second call came 119999 ms after the first and was throttled, while
\* the fetch of the first is still in flight.
C3_Witness ==
    /\ ~lastCall.accepted
    /\ lastCall.file = lastAcc.file
    /\ lastCall.project = lastAcc.project
    /\ lastCall.time = lastAcc.time + HEARTBEAT_TIMEOUT - 1
    /\ \E d \in inflight : d.stage = "fetch" /\ d.hb = nextHb - 1

(***************************************************************************)
(* C4: with an API key set, sendHeartbeat accepts every call whose file or  *)
(* project differs from that of the last accepted heartbeat, whatever the   *)
(* clock reads.                                                             *)
(***************************************************************************)
C4_DistinctKeysBypass ==
    [][\A f \in Files, p \in Projects :
          (sendHeartbeat(f, p) /\ apiKey # NoKey /\ (lastAcc.file # f \/ lastAcc.project # p))
              => lastCall'.accepted]_vars

\* Three heartbeats were accepted at one reading of the clock: each differs
\* in its key from the one before it.
C4_Witness ==
    /\ lastCall.accepted
    /\ lastCall.time = StartTime
    /\ now = StartTime
    /\ nextHb = 4

(***************************************************************************)
(* C5: in every reachable state the persisted queue holds at most           *)
(* MAX_QUEUE_SIZE records.                                                  *)
(***************************************************************************)
C5_QueueBounded == Len(storage) <= MAX_QUEUE_SIZE

(***************************************************************************)
(* C6: with no sync pass running, after MAX_QUEUE_SIZE + k calls of         *)
(* storeHeartbeat (k > 0) on an empty queue, the persisted queue holds      *)
(* exactly the MAX_QUEUE_SIZE most recently enqueued records, in enqueue    *)
(* order.                                                                   *)
(***************************************************************************)
C6_OldestEvictedFirst ==
    LET n == nextSeq - 1
    IN n > MAX_QUEUE_SIZE
          => /\ Len(storage) = MAX_QUEUE_SIZE
             /\ \A k \in 1..MAX_QUEUE_SIZE : storage[k].seq = n - MAX_QUEUE_SIZE + k

\* The closure of pass p when the fetch of snap[i] has settled and the .then
\* callback has counted its outcome.
passAfterThen(p, i, outcome) ==
    thenHandler(settleFetch(passes[p], i, syncSingleHeartbeat(outcome)), i,
                syncSingleHeartbeat(outcome))

(***************************************************************************)
(* C7: when a sync pass ends, a record of its snapshot whose delivery has   *)
(* now failed in maxRetries passes is absent from the persisted queue, and  *)
(* a record whose delivery failed in this pass for the (maxRetries - 1)-th  *)
(* time is in the persisted queue with retryCount = maxRetries - 1.         *)
(***************************************************************************)
C7_RetryBudget ==
    [][\A p \in DOMAIN passes : \A i \in passes[p].fetching, outcome \in Outcomes :
          (syncFetchDone(p, i, outcome) /\ PassEnds)
              => LET pass == passAfterThen(p, i, outcome)
                 IN \A j \in pass.failedIdx :
                       /\ pass.snap[j].fails = maxRetries
                             => pass.snap[j].seq \notin Seqs(storage')
                       /\ pass.snap[j].fails = maxRetries - 1
                             => \E k \in DOMAIN storage' :
                                   /\ storage'[k].seq = pass.snap[j].seq
                                   /\ storage'[k].retryCount = maxRetries - 1]_vars

\* The record objects of the passes, in flight or rejected.
passRecords == UNION {Range(pass.snap) : pass \in Range(passes) \cup rejected}

(***************************************************************************)
(* C8: the retryCount of every record, persisted or held by a sync pass,    *)
(* equals the number of failed delivery attempts of that record: each       *)
(* failed attempt adds exactly 1 to it and nothing else changes it, also    *)
(* when the final write of the pass throws.                                 *)
(***************************************************************************)
C8_RetryCountCountsFailures ==
    \A rec \in Range(storage) \cup passRecords : rec.retryCount = rec.fails

(***************************************************************************)
(* C9: a sync pass submits the records of its snapshot one at a time and in *)
(* enqueue order: the fetches it started are those of snap[1], snap[2], ...  *)
(* in this order, each once; at most the last of them is in flight; and the *)
(* snapshot is in enqueue order.                                            *)
(***************************************************************************)
C9_SequentialInOrder ==
    \A pass \in Range(passes) \cup rejected :
        /\ pass.submitted = [k \in 1..Len(pass.submitted) |-> k]
        /\ Len(pass.submitted) <= Len(pass.snap)
        /\ pass.fetching \subseteq {Len(pass.submitted)}
        /\ \A a, b \in DOMAIN pass.snap : a < b => pass.snap[a].seq < pass.snap[b].seq

(***************************************************************************)
(* C10: an accepted sendHeartbeat call made while isDeviceOnline() is false *)
(* makes no delivery attempt and appends exactly one record, with           *)
(* retryCount 0, to the persisted queue.                                    *)
(***************************************************************************)
C10_OfflineRouting ==
    [][\A f \in Files, p \in Projects :
          (sendHeartbeat(f, p) /\ ~isDeviceOnline /\ lastCall'.accepted)
              => /\ inflight' = inflight
                 /\ storage' # <<>>
                 /\ LET last == storage'[Len(storage')]
                    IN /\ last.hb = nextHb
                       /\ last.seq = nextSeq
                       /\ last.retryCount = 0
                 /\ \E n \in 0..Len(storage) :
                       SubSeq(storage', 1, Len(storage') - 1) = spliceFront(storage, n)]_vars

(***************************************************************************)
(* C11: when the fetch of the Dispatcher's immediate delivery ends with a   *)
(* transport error or a response that is not 2xx, sendHeartbeat appends     *)
(* exactly one record of that heartbeat, with retryCount 0, to the          *)
(* persisted queue.                                                         *)
(***************************************************************************)
C11_FailedDeliveryEnqueued ==
    [][\A d \in inflight, outcome \in {"rejected", "neterr"} :
          dispatchFetchDone(d, outcome)
              => /\ storage' # <<>>
                 /\ LET last == storage'[Len(storage')]
                    IN /\ last.hb = d.hb
                       /\ last.seq = nextSeq
                       /\ last.retryCount = 0
                 /\ \E n \in 0..Len(storage) :
                       SubSeq(storage', 1, Len(storage') - 1) = spliceFront(storage, n)]_vars

(***************************************************************************)
(* C12: once the fetch of the immediate delivery got a 2xx response,        *)
(* sendHeartbeat leaves the persisted queue as it is, also when reading     *)
(* the response fails.                                                      *)
(***************************************************************************)
C12_AcceptedNeverEnqueued ==
    [][\A d \in inflight, parsed \in BOOLEAN :
          dispatchJsonDone(d, parsed) => UNCHANGED queueVars]_vars

(***************************************************************************)
(* C13: a sendHeartbeat call that the throttle rejects starts no delivery,  *)
(* leaves the persisted queue as it is and leaves lastHeartbeat, the        *)
(* remembered (file, project, time), as it is.                              *)
(***************************************************************************)
C13_ThrottledCallNoEffect ==
    [][\A f \in Files, p \in Projects :
          (sendHeartbeat(f, p) /\ apiKey # NoKey /\ isDuplicateHeartbeat(f, p, now))
              => UNCHANGED <<lastHeartbeat, inflight, nextHb, queueVars, monitorVars, passVars>>]_vars

\* A call was throttled later than the heartbeat it was compared with, whose
\* record is in the persisted queue.
C13_Witness ==
    /\ ~lastCall.accepted
    /\ lastCall.file = lastHeartbeat.file
    /\ lastCall.project = lastHeartbeat.project
    /\ lastCall.time > lastHeartbeat.time
    /\ storage # <<>>

(***************************************************************************)
(* C14: no promise that syncStoredHeartbeats (and with it forceSyncNow)     *)
(* returned is rejected, also when the final write of the pass throws.      *)
(***************************************************************************)
C14_NoRejectedPromise == rejected = {}

(***************************************************************************)
(* C15: while the monitor is offline (isOnline is false), a call of         *)
(* syncStoredHeartbeats by a timer callback or of forceSyncNow starts no    *)
(* sync pass, makes no delivery attempt and writes nothing to the storage.  *)
(***************************************************************************)
C15_NoPassWhileOffline ==
    [][(~isOnline /\ (TimerFire \/ TimeoutFire \/ ForceSyncNow))
          => UNCHANGED <<storage, passVars>>]_vars

\* The monitor went offline with the timeout of startSyncTimer still pending,
\* the queue is not empty and no pass is running.
C15_Witness ==
    /\ ~isOnline
    /\ timeouts > 0
    /\ storage # <<>>
    /\ ~syncInProgress

(***************************************************************************)
(* C16: the 'online' listener starts the periodic timer and schedules one   *)
(* timeout; and when the timeout or the periodic timer fires while the      *)
(* monitor is online and the queue is not empty, a sync pass is in flight   *)
(* afterwards: it was running already, or the callback started it.          *)
(***************************************************************************)
C16_PassOnTimer ==
    [][/\ OnOnline => (syncTimer' /\ intervals' > 0 /\ timeouts' = timeouts + 1)
       /\ (isOnline /\ storage # <<>> /\ (TimeoutFire \/ TimerFire)) => passes' # <<>>]_vars

(***************************************************************************)
(* C17: the promise of forceSyncNow resolves to true exactly when the call  *)
(* started a sync pass, and to false when it did not: when the monitor is   *)
(* offline, when a pass was running already, when the queue was empty.      *)
(***************************************************************************)
C17_ForceSyncResult ==
    [][ForceSyncNow
          => IF passes' # passes
             THEN forceResult' = "pending"
             ELSE forceResult' = "false"]_vars

(***************************************************************************)
(* C18: a record whose write failed in storeHeartbeat is not lost: with no  *)
(* sync pass running and the capacity not reached, the persisted queue      *)
(* holds every record enqueued so far after each successful write of        *)
(* storeHeartbeat.                                                          *)
(***************************************************************************)
C18_FailedWriteKept ==
    [][(nextSeq' = nextSeq + 1 /\ ~storageFails /\ nextSeq <= MAX_QUEUE_SIZE)
          => Seqs(storage') = 1..nextSeq]_vars

snapshotKept(pass) ==
    \E n \in 0..Len(pass.read) :
        /\ n > 0 => Len(storage) = MAX_QUEUE_SIZE
        /\ Len(storage) >= Len(pass.read) - n
        /\ SubSeq(storage, 1, Len(pass.read) - n) = spliceFront(pass.read, n)

(***************************************************************************)
(* C20, as stated: when the process is killed during a sync pass, every     *)
(* record that the pass read and has not delivered is in the persisted      *)
(* queue, as it was read.                                                   *)
(***************************************************************************)
C20_SnapshotIntactAtKill ==
    [][Crash => \A pass \in Range(passes) :
                   \A j \in DOMAIN pass.read \ Range(pass.successfulSyncs) :
                      pass.read[j] \in Range(storage')]_vars

(***************************************************************************)
(* C20, amended: a sync pass in flight has written nothing: the storage     *)
(* holds every record the pass read, with its retryCount of before the      *)
(* pass, except those that storeHeartbeat evicted from the front of the     *)
(* full queue meanwhile; a kill and restart leaves the storage as it is,    *)
(* and the new handler reads it with no pass running.                       *)
(***************************************************************************)
C20_SnapshotKeptUpToEviction ==
    /\ [](\A pass \in Range(passes) : snapshotKept(pass))
    /\ [][Crash => /\ storage' = storage
                   /\ passes' = <<>>
                   /\ ~syncInProgress'
                   /\ \A pass \in Range(passes) :
                         \A k \in DOMAIN storage' :
                            storage'[k].seq \in undelivered(pass)
                               => storage'[k] \in Range(pass.read)]_vars

\* The process was killed during a pass that had read records and not
\* delivered them, and the handler of the new process finds them stored.
C20_Witness ==
    /\ killed # <<>>
    /\ killed[1] \cap Seqs(storage) # {}
    /\ passes = <<>>
    /\ ~syncInProgress
    /\ \E k \in DOMAIN storage : storage[k].seq \in killed[1] /\ storage[k].retryCount > 0

(***************************************************************************)
(* C21: end to end. The plugin starts offline with an empty queue: as long  *)
(* as the host has not reconnected, every accepted heartbeat is in the      *)
(* persisted queue (n accepted heartbeats leave it at size n, up to its     *)
(* capacity) and none is being delivered; after the reconnect, a sync pass  *)
(* in which every delivery succeeded leaves the queue empty, with           *)
(* getStats().totalStored = 0 and syncInProgress = false.                   *)
(***************************************************************************)
C21_OfflineThenDrained ==
    /\ []((~navOnline /\ ~isOnline)
             => /\ inflight = {}
                /\ passes = <<>>
                /\ Len(storage) = Min(nextHb - 1, MAX_QUEUE_SIZE))
    /\ [][\A p \in DOMAIN passes : \A i \in passes[p].fetching :
             (syncFetchDone(p, i, "ok") /\ PassEnds
                 /\ Len(passes[p].successfulSyncs) = Len(passes[p].snap) - 1)
                => /\ storage' = <<>>
                   /\ getStats'.totalStored = 0
                   /\ ~syncInProgress']_vars

(***************************************************************************)
(* C22: with the monitor online, no record enqueued and every delivery      *)
(* settling, the persisted queue is empty once maxRetries sync passes have  *)
(* completed, whatever the outcomes of the deliveries were, and getStats    *)
(* reports totalStored = 0.                                                 *)
(***************************************************************************)
C22_DrainedWithinBudget ==
    completed >= maxRetries => (storage = <<>> /\ getStats.totalStored = 0)

\* Three passes completed: the queue was not empty when the second and the
\* third began, so deliveries failed in the first and the second.
C22_Witness ==
    /\ completed = maxRetries
    /\ storage = <<>>
    /\ ~syncInProgress
    /\ passes = <<>>

\* The indices of the array a pass read whose delivery failed and whose
\* retryCount, incremented once, is below maxRetries, in the array's order.
keptIndices(pass) ==
    SelectSeq([j \in 1..Len(pass.read) |-> j],
              LAMBDA j : j \in pass.failedIdx /\ pass.read[j].retryCount + 1 < maxRetries)

(***************************************************************************)
(* C23: when a sync pass completes, the persisted queue holds exactly the   *)
(* records the pass read whose delivery failed and whose retryCount, one    *)
(* higher than it was read, is below maxRetries: each once, in the order    *)
(* they were read, with that retryCount; the records delivered and the      *)
(* records dropped are absent.                                              *)
(***************************************************************************)
C23_ExactlyKeptPersisted ==
    [][\A p \in DOMAIN passes : \A i \in passes[p].fetching, outcome \in Outcomes :
          (syncFetchDone(p, i, outcome) /\ PassCompletes)
              => LET pass == passAfterThen(p, i, outcome)
                     kept == keptIndices(pass)
                 IN /\ Len(storage') = Len(kept)
                    /\ \A k \in DOMAIN kept :
                          /\ storage'[k].seq = pass.read[kept[k]].seq
                          /\ storage'[k].retryCount = pass.read[kept[k]].retryCount + 1]_vars

(***************************************************************************)
(* C24: in every reachable state, every record of the persisted queue has   *)
(* 0 <= retryCount < maxRetries.                                            *)
(***************************************************************************)
C24_StoredRetryCountInBudget ==
    \A rec \in Range(storage) : rec.retryCount >= 0 /\ rec.retryCount < maxRetries

(***************************************************************************)
(* C25: every request of a sync pass carries the API key that the settings  *)
(* held when its record was enqueued, whatever the settings hold when the   *)
(* pass submits it.                                                         *)
(***************************************************************************)
C25_CredentialOfEnqueue ==
    \A pass \in Range(passes) \cup rejected :
        /\ Len(pass.auth) = Len(pass.submitted)
        /\ \A k \in DOMAIN pass.auth :
              pass.auth[k] = <<"Basic", pass.read[pass.submitted[k]].enqKey>>

\* A pass has a request in flight with the key of its record, k1, while the
\* settings hold k2.
C25_Witness ==
    \E pass \in Range(passes) : \E k \in DOMAIN pass.auth :
        /\ pass.submitted[k] \in pass.fetching
        /\ pass.auth[k] = <<"Basic", "k1">>
        /\ apiKey = "k2"

(***************************************************************************)
(* C26: the throttle remembers a heartbeat from the moment it is accepted,  *)
(* whatever becomes of its delivery: lastHeartbeat is the last accepted     *)
(* call while its delivery is in flight, after it failed and after it was   *)
(* enqueued, and a call for the same (file, project) less than 120000 ms    *)
(* after it is throttled.                                                   *)
(***************************************************************************)
C26_ThrottleIgnoresDelivery ==
    /\ [](lastAcc.file # NoFile
             => lastHeartbeat = [time |-> lastAcc.time, file |-> lastAcc.file,
                                 project |-> lastAcc.project])
    /\ [][\A f \in Files, p \in Projects :
             (sendHeartbeat(f, p) /\ lastAcc.file = f /\ lastAcc.project = p
                 /\ now - lastAcc.time < HEARTBEAT_TIMEOUT)
                => (~lastCall'.accepted /\ UNCHANGED <<lastHeartbeat, inflight, queueVars>>)]_vars

\* A call was throttled within the window of the last accepted heartbeat,
\* whose delivery has failed: the monitor is online, no delivery is in
\* flight and the heartbeat's record is in the queue.
C26_Witness ==
    /\ ~lastCall.accepted
    /\ lastCall.file = lastAcc.file
    /\ lastCall.project = lastAcc.project
    /\ lastCall.time > lastAcc.time
    /\ lastCall.time - lastAcc.time < HEARTBEAT_TIMEOUT
    /\ inflight = {}
    /\ isOnline /\ navOnline /\ timeouts > 0
    /\ \E k \in DOMAIN storage : storage[k].hb = nextHb - 1

(***************************************************************************)
(* C27: the throttle remembers one heartbeat, the last accepted one. A call *)
(* is throttled exactly when it has the (file, project) of the last         *)
(* accepted heartbeat and comes less than 120000 ms after it, whatever was  *)
(* accepted before that one; and an accepted call takes the slot. So events *)
(* on A, on B and on A again within 120000 ms are accepted all three.       *)
(***************************************************************************)
C27_SingleSlot ==
    [][\A f \in Files, p \in Projects :
          (sendHeartbeat(f, p) /\ apiKey # NoKey)
              => /\ ~lastCall'.accepted
                    <=> /\ lastAcc.file = f
                        /\ lastAcc.project = p
                        /\ now - lastAcc.time < HEARTBEAT_TIMEOUT
                 /\ lastCall'.accepted
                       => lastHeartbeat' = [time |-> now, file |-> f, project |-> p]]_vars

\* Three heartbeats were accepted within one window, the third later than
\* the first. The events are on two files of one project, and of two events
\* on one file within the window the second is throttled: the three were on
\* A, on B and on A again.
C27_Witness ==
    /\ nextHb = 4
    /\ lastCall.accepted
    /\ lastCall.time = StartTime + HEARTBEAT_TIMEOUT - 1
    /\ lastHeartbeat = [time |-> lastCall.time, file |-> lastCall.file,
                        project |-> lastCall.project]

(***************************************************************************)
(* C28: a sync pass that started finishes, provided its deliveries settle:  *)
(* syncInProgress, once set, is reset in the end, also when the final write *)
(* of the pass throws, so that the handler does not stay busy for ever.     *)
(***************************************************************************)
C28_PassFinishes == syncInProgress ~> ~syncInProgress

(***************************************************************************)
(* C29: with no kill of the process, a heartbeat that the service answered  *)
(* by a 2xx response is not submitted again: no sync pass submits a record  *)
(* whose heartbeat was answered so before, to the Dispatcher's request or   *)
(* to a request of this or an earlier pass.                                 *)
(***************************************************************************)
C29_NoResubmissionAfter2xx ==
    \A pass \in Range(passes) \cup rejected : pass.resent = {}

(***************************************************************************)
(* C30: a sync pass makes its delivery attempts while the monitor is        *)
(* online: once the 'offline' listener has run, a pass in flight submits    *)
(* none of the remaining records of its snapshot, and so neither counts a   *)
(* failure for them nor drops them.                                         *)
(***************************************************************************)
C30_NoSubmissionWhileOffline ==
    [][~isOnline
          => \A p \in DOMAIN passes' :
                /\ p \in DOMAIN passes
                /\ passes'[p].submitted = passes[p].submitted]_vars

(***************************************************************************)
(* The connectivity monitor over a stored queue, up to and after destroy.   *)
(***************************************************************************)
\* The handler constructed, online or offline, over a stored queue of an
\* earlier run.
InitMonitor ==
    /\ now = StartTime
    /\ apiKey = "k1"
    /\ lastHeartbeat = [time |-> 0, file |-> NoFile, project |-> NoFile]
    /\ inflight = {}
    /\ lastCall = [file |-> NoFile, project |-> NoFile, time |-> 0, accepted |-> FALSE]
    /\ lastAcc = [file |-> NoFile, project |-> NoFile, time |-> 0]
    /\ navOnline \in BOOLEAN
    /\ netEvents = <<>>
    /\ isOnline = navOnline
    /\ syncInProgress = FALSE
    /\ syncTimer = isOnline
    /\ intervals = IF isOnline THEN 1 ELSE 0
    /\ timerStarts = IF isOnline THEN 1 ELSE 0
    /\ timeouts = IF isOnline THEN 1 ELSE 0
    /\ \E counts \in StoredQueues :
          /\ storage = storedQueue(counts)
          /\ nextSeq = Len(counts) + 1
          /\ nextHb = Len(counts) + 1
    /\ storageFails = FALSE
    /\ readFails = FALSE
    /\ forceResult = "none"
    /\ killed = <<>>
    /\ destroyed = FALSE
    /\ passes = <<>>
    /\ rejected = {}
    /\ completed = 0

NextMonitor ==
    \/ NetFlip
    \/ NetAgain
    \/ OnOnline
    \/ OnOffline
    \/ TimerFire
    \/ TimeoutFire
    \/ SyncFetchDone
    \/ Destroy

\* The offline handler with the host's connectivity events and the unmount
\* of the plugin, and no activity in the editor.
SpecMonitor == InitMonitor /\ [][NextMonitor]_vars

(***************************************************************************)
(* C31: from construction until destroy, the periodic sync timer is active  *)
(* exactly when the monitor state is Online, and at most one periodic timer *)
(* exists: the state after construction is the host's connectivity, and     *)
(* 'online' events in a row, with no 'offline' between, leave one timer.    *)
(***************************************************************************)
C31_TimerIffOnline ==
    ~destroyed
        => /\ syncTimer = isOnline
           /\ intervals = (IF isOnline THEN 1 ELSE 0)
           /\ netEvents = <<>> => isOnline = navOnline

\* The 'online' listener has run twice in a row, and one timer is live.
C31_Witness ==
    /\ ~destroyed
    /\ timerStarts = MaxStarts
    /\ isOnline
    /\ intervals = 1

(***************************************************************************)
(* C32: after destroy the offline handler starts no sync pass and creates   *)
(* no timer, whatever connectivity events and timeouts scheduled earlier    *)
(* fire afterwards.                                                         *)
(***************************************************************************)
C32_QuietAfterDestroy ==
    [][destroyed
          => /\ Len(passes') <= Len(passes)
             /\ syncInProgress' => syncInProgress
             /\ intervals' <= intervals
             /\ timeouts' <= timeouts]_vars

(***************************************************************************)
(* The inline-sync variant of the plugin (part_002): WakaTimePlugin stores  *)
(* and syncs the heartbeats itself. Of the variables it uses now, apiKey,   *)
(* lastHeartbeat, inflight, nextHb, storage, nextSeq, intervals, timeouts   *)
(* and passes; a pass is kept in passes, marked done, when it has ended.    *)
(***************************************************************************)
\* stored.splice(0, stored.length - 500) after the push.
offlineAfterPush(stored, rec) ==
    LET pushed == Append(stored, rec)
    IN IF Len(pushed) > OfflineLimit
       THEN SubSeq(pushed, Len(pushed) - OfflineLimit + 1, Len(pushed))
       ELSE pushed

\* storeOfflineHeartbeat(data): the record gets the API key of the settings
\* and timestamp Date.now(); whatever throws is caught and logged. seq, the
\* serial of the call, is history the code does not keep.
storeOfflineHeartbeat(hb) ==
    LET rec == [hb |-> hb, seq |-> nextSeq, apiKey |-> apiKey, timestamp |-> now]
    IN /\ storage' = IF storageFails \/ readFails
                     THEN storage
                     ELSE offlineAfterPush(storage, rec)
       /\ nextSeq' = nextSeq + 1

\* sendHeartbeat of the variant up to its first await: it asks for no
\* connectivity and always tries the delivery.
sendHeartbeatInline(file, project) ==
    /\ IF apiKey = NoKey \/ isDuplicateHeartbeat(file, project, now)
       THEN UNCHANGED <<lastHeartbeat, nextHb, inflight>>
       ELSE /\ lastHeartbeat' = [time |-> now, file |-> file, project |-> project]
            /\ nextHb' = nextHb + 1
            /\ inflight' = inflight \cup {[hb |-> nextHb, auth |-> apiKey, stage |-> "fetch"]}
    /\ UNCHANGED queueVars
    /\ recordCall(file, project)
    /\ UNCHANGED <<now, apiKey, monitorVars, worldVars, passVars, forceResult>>

\* handleFileSwitch and handleEditorChange of the variant, for the files of
\* one added folder.
InlineActivity ==
    /\ nextHb <= MaxHeartbeats
    /\ Cardinality(inflight) < MaxPending
    /\ \E file \in Files : sendHeartbeatInline(file, "p1")

\* sendHeartbeat of the variant resumed when its fetch settles.
inlineFetchDone(d, outcome) ==
    /\ d.stage = "fetch"
    /\ IF outcome = "ok"
       THEN /\ inflight' = (inflight \ {d}) \cup {[d EXCEPT !.stage = "json"]}
            /\ UNCHANGED queueVars
       ELSE /\ inflight' = inflight \ {d}
            /\ storeOfflineHeartbeat(d.hb)
    /\ UNCHANGED <<now, apiKey, lastHeartbeat, nextHb, lastCall, lastAcc, monitorVars,
                   worldVars, passVars, forceResult>>

InlineFetchDone ==
    \E d \in inflight, outcome \in Outcomes : inlineFetchDone(d, outcome)

\* sendHeartbeat of the variant resumed when response.json() settles, inside
\* the try block.
inlineJsonDone(d, parsed) ==
    /\ d.stage = "json"
    /\ inflight' = inflight \ {d}
    /\ IF parsed
       THEN UNCHANGED queueVars
       ELSE storeOfflineHeartbeat(d.hb)
    /\ UNCHANGED <<now, apiKey, lastHeartbeat, nextHb, lastCall, lastAcc, monitorVars,
                   worldVars, passVars, forceResult>>

InlineJsonDone ==
    \E d \in inflight, parsed \in BOOLEAN : inlineJsonDone(d, parsed)

\* stored.filter(h => !successful.some(s => s.timestamp === h.timestamp)).
remaining(stored, successful) ==
    SelectSeq(stored, LAMBDA h : ~\E s \in Range(successful) : s.timestamp = h.timestamp)

\* syncOfflineHeartbeats up to its first await: it reads the queue and
\* submits the first record; no flag keeps two passes apart.
syncOfflineHeartbeats ==
    IF readFails \/ Len(storage) = 0
    THEN UNCHANGED passes
    ELSE passes' = Append(passes, [stored |-> storage, index |-> 1, successful |-> <<>>,
                                   done |-> FALSE])

\* syncOfflineHeartbeats resumed when the fetch of stored[index] settles: a
\* 2xx response puts the record in successful, and after the last record
\* the pass writes the filtered snapshot, if any delivery succeeded.
inlineSyncFetchDone(p, outcome) ==
    LET pass == passes[p]
        successful == IF outcome = "ok"
                      THEN Append(pass.successful, pass.stored[pass.index])
                      ELSE pass.successful
    IN /\ ~pass.done
       /\ IF pass.index < Len(pass.stored)
          THEN /\ passes' = [passes EXCEPT ![p] = [pass EXCEPT !.index = @ + 1,
                                                               !.successful = successful]]
               /\ UNCHANGED storage
          ELSE /\ passes' = [passes EXCEPT ![p] = [pass EXCEPT !.successful = successful,
                                                               !.done = TRUE]]
               /\ storage' = IF Len(successful) > 0 /\ ~storageFails
                             THEN remaining(pass.stored, successful)
                             ELSE storage
       /\ UNCHANGED <<dispatcherVars, monitorVars, nextSeq, worldVars, syncInProgress,
                      rejected, completed, forceResult>>

InlineSyncFetchDone ==
    \E p \in DOMAIN passes, outcome \in Outcomes : inlineSyncFetchDone(p, outcome)

\* The setInterval callback of startBackgroundSync.
BackgroundTimerFire ==
    /\ intervals > 0
    /\ Len(passes) < MaxPasses
    /\ syncOfflineHeartbeats
    /\ UNCHANGED <<dispatcherVars, monitorVars, queueVars, worldVars, syncInProgress,
                   rejected, completed, forceResult>>

\* The setTimeout callback of startBackgroundSync.
BackgroundTimeoutFire ==
    /\ timeouts > 0
    /\ Len(passes) < MaxPasses
    /\ timeouts' = timeouts - 1
    /\ syncOfflineHeartbeats
    /\ UNCHANGED <<dispatcherVars, navOnline, netEvents, isOnline, syncTimer, intervals,
                   timerStarts, queueVars, worldVars, syncInProgress, rejected, completed,
                   forceResult>>

\* The constructor of the variant: startBackgroundSync sets the interval
\* and the timeout; the stored queue is empty.
InitInline ==
    /\ InitConfigured
    /\ navOnline

NextInline ==
    \/ TickFine
    \/ InlineActivity
    \/ InlineFetchDone
    \/ InlineJsonDone
    \/ BackgroundTimerFire
    \/ BackgroundTimeoutFire
    \/ InlineSyncFetchDone

\* The inline-sync variant of the plugin.
SpecInline == InitInline /\ [][NextInline]_vars

(***************************************************************************)
(* C33: in the inline-sync variant, a pass removes a record from storage    *)
(* only if that record's own delivery returned a 2xx response: a record     *)
(* whose delivery failed is still stored after the pass, also when it has   *)
(* the enqueue timestamp of a record that the pass delivered.               *)
(***************************************************************************)
C33_RemovedOnlyIfDelivered ==
    [][nextSeq' = nextSeq
          => \A k \in DOMAIN storage :
                storage[k].seq \notin Seqs(storage')
                   => \E p \in DOMAIN passes' :
                         storage[k].seq \in Seqs(passes'[p].successful)]_vars

=============================================================================
